---- MODULE Spec2Model ----
(***************************************************************************)
(* Model of the arcanumcube-demo solver: the HeapQueue priority queue      *)
(* (src/heapqueue.ts) and the batched best-first search of the solver      *)
(* worker (src/solver.ts).                                                 *)
(***************************************************************************)
EXTENDS Integers, Sequences, FiniteSets, TLC

\* ------------------------------------------------------------------------
\* Bounds of the model
\* ------------------------------------------------------------------------
MaxPushes == 5      \* heappush calls made by the HeapQueue driver
MaxPriority == 3    \* priorities the driver pushes are 1..MaxPriority
MaxLog == 3         \* operations remembered in opLog
RingSize == 6       \* stickers of the puzzle
MaxN == 2           \* solve is called with n in 1..MaxN
MaxDistance == 2    \* model.predict gives distances in 0..MaxDistance
MaxCalls == 2       \* requests one worker receives

\* l = 0.3, the weight of the answer length in the priority, in tenths
LTenths == 3

\* ------------------------------------------------------------------------
\* HeapQueue (array indices are 0-based as in the source)
\* ------------------------------------------------------------------------
At(q, i) == q[i + 1]

\* an array write that is lost
SetAtLost(q, i, v) == q

SetAt(q, i, v) == [q EXCEPT ![i + 1] = v]

\* the comparison of _bubble: v orders strictly before p
Before(v, p) ==
    \/ v.priority < p.priority
    \/ (v.priority = p.priority /\ v.counter < p.counter)

\* the comparison _sink makes between the moved element v and a child c
SinkBelow(v, c) ==
    \/ v.priority > c.priority
    \/ (v.priority = c.priority /\ v.counter < c.counter)

\* _bubble that swaps with the parent once and does not go on upwards
BubbleOnce(q, index, v) ==
    IF index <= 0 THEN q
    ELSE LET parent == (index - 1) \div 2
             p == At(q, parent)
         IN IF Before(v, p) THEN SetAt(SetAt(q, parent, v), index, p) ELSE q

RECURSIVE Bubble(_, _, _)
Bubble(q, index, v) ==
    IF index <= 0 THEN q
    ELSE LET parent == (index - 1) \div 2
             p == At(q, parent)
         IN IF Before(v, p)
            THEN Bubble(SetAt(SetAt(q, parent, v), index, p), parent, v)
            ELSE q

RECURSIVE Sink(_, _, _)
Sink(q, index, v) ==
    LET len == Len(q)
        child == 2 * index + 1
        child2 == 2 * index + 2
    IN IF child >= len THEN q
       ELSE LET c == At(q, child)
            IN IF /\ child2 < len
                  /\ Before(At(q, child2), c)
                  /\ SinkBelow(v, At(q, child2))
               THEN Sink(SetAt(SetAt(q, child2, v), index, At(q, child2)), child2, v)
               ELSE IF SinkBelow(v, c)
                    THEN Sink(SetAt(SetAt(q, child, v), index, c), child, v)
                    ELSE Bubble(q, index, v)

\* the swaps _sink makes, in order: the moved element, the child it changes
\* places with and the other child at that level, if there is one
RECURSIVE SinkSwaps(_, _, _)
SinkSwaps(q, index, v) ==
    LET len == Len(q)
        child == 2 * index + 1
        child2 == 2 * index + 2
    IN IF child >= len THEN <<>>
       ELSE LET c == At(q, child)
            IN IF /\ child2 < len
                  /\ Before(At(q, child2), c)
                  /\ SinkBelow(v, At(q, child2))
               THEN <<[moved |-> v, taken |-> At(q, child2), other |-> <<c>>]>>
                    \o SinkSwaps(SetAt(SetAt(q, child2, v), index,
                                       At(q, child2)), child2, v)
               ELSE IF SinkBelow(v, c)
                    THEN <<[moved |-> v, taken |-> c,
                            other |-> IF child2 < len
                                      THEN <<At(q, child2)>> ELSE <<>>]>>
                         \o SinkSwaps(SetAt(SetAt(q, child, v), index, c),
                                      child, v)
                    ELSE <<>>

\* heappush on the instance [queue, counter]
HeapPush(h, priority, task) ==
    LET len == Len(h.queue)
        v == [priority |-> priority, counter |-> h.counter, task |-> task]
    IN [queue |-> Bubble(Append(h.queue, v), len, v), counter |-> h.counter + 1]

\* heappop that writes the removed last element back at the root whenever
\* the queue was not empty (len > 0 in place of len > 1)
HeapPopKeepsLast(h) ==
    LET len == Len(h.queue)
    IN IF len <= 0
       THEN [heap |-> h, ret |-> <<>>]
       ELSE LET v == h.queue[1]
                n == h.queue[len]
                popped == SubSeq(h.queue, 1, len - 1)
            IN [heap |-> [h EXCEPT !.queue =
                              IF len > 1 THEN Sink(SetAt(popped, 0, n), 0, n)
                              ELSE <<n>>],
                ret |-> <<v.task>>]

\* heappop that takes v only when len > 1 (len <= 1 in place of len <= 0)
HeapPopOffByOne(h) ==
    LET len == Len(h.queue)
    IN IF len <= 0
       THEN [heap |-> h, ret |-> <<>>]
       ELSE LET n == h.queue[len]
                popped == SubSeq(h.queue, 1, len - 1)
            IN [heap |-> [h EXCEPT !.queue =
                              IF len > 1 THEN Sink(SetAt(popped, 0, n), 0, n)
                              ELSE popped],
                ret |-> IF len <= 1 THEN <<>> ELSE <<h.queue[1].task>>]

\* heappop: the instance afterwards and the returned value, <<>> standing for
\* undefined and <<t>> for the task t
HeapPop(h) ==
    LET len == Len(h.queue)
    IN IF len <= 0
       THEN [heap |-> h, ret |-> <<>>]
       ELSE LET v == h.queue[1]
                n == h.queue[len]
                popped == SubSeq(h.queue, 1, len - 1)
            IN [heap |-> [h EXCEPT !.queue =
                              IF len > 1 THEN Sink(SetAt(popped, 0, n), 0, n)
                              ELSE popped],
                ret |-> <<v.task>>]

HeapLength(h) == Len(h.queue)

\* clear that resets the counter and keeps the array
HeapClearResetsCounter(h) == [h EXCEPT !.counter = 0]

\* clear that starts the instance afresh, counter included
HeapClearStartsAfresh(h) == [queue |-> <<>>, counter |-> 0]

HeapClear(h) == [h EXCEPT !.queue = <<>>]

NewHeapQueue == [queue |-> <<>>, counter |-> 0]

\* ------------------------------------------------------------------------
\* State
\* ------------------------------------------------------------------------
VARIABLES
    \* -- the HeapQueue driven directly (as the unit tests do)
    hq,         \* the HeapQueue instance
    issued,     \* tasks handed to heappush so far: the next task is issued + 1
    opLog,      \* the last MaxLog operations on hq and their values
    before,     \* the heap array of hq right before the last operation
    pushes,     \* heappush calls since construction or the last clear
    pops,       \* heappop calls that returned a task since then
    popRun,     \* entries returned by the heappops since the last push or clear
    clearMark,  \* value of issued at the last clear (0 when never cleared)
    \* -- the solver worker
    pc,             \* position of the worker in onmessage / solve
    stickers,       \* argument of solve: the initial state
    solve_n,        \* argument of solve: nodes popped per round
    scopeStarts,    \* calls of tf.engine().startScope()
    scopeEnds,      \* calls of tf.engine().endScope()
    model,          \* "none", "loaded" or "disposed"
    created,        \* TRUE once queue and visitedStates exist
    queue,          \* the search queue (a HeapQueue)
    visitedStates,  \* fingerprint -> shortest answer length recorded
    range,          \* getNextStateAndAnswers: range
    round_i,        \* getNextStateAndAnswers: loop index
    round_v,        \* getNextStateAndAnswers: popped node, <<>> or <<node>>
    twist_k,        \* index in SINGLE_TWIST_LIST of the next action to apply
    next_states,    \* states kept in the current round
    next_answers,   \* their answers
    batch_x,        \* their tensor arrays (the oracle's batch)
    cost_to_goals,  \* output of the last model.predict
    result,         \* value solve returned, <<>> or <<answer>>
    outcome,        \* how solve ended
    msgs,           \* messages posted to the main thread, in order
    oracleCalls,    \* calls of model.predict
    goalKept,       \* some kept successor satisfied MatchGoalState
    rekeeps,        \* successors kept that the ledger held at a greater length
    rejection,      \* the promise of solve: "none", or once rejected
                    \* "pending", then "dropped" or "reported"
    onErrorCalls,   \* runs of solver.onerror on the main thread
    yielded,        \* the successors yielded so far, in order: the call of
                    \* solve, distance of the popped node, answer length,
                    \* index in msgs of the progress message posted for it
                    \* (0 when none)
    expansions,     \* the nodes popped and expanded so far, in order
    otherCalls,     \* the calls of solve of the same worker that are not
                    \* the one the variables above describe: waiting at
                    \* the await, returned or answered
    \* -- the main thread: World.solve and the handlers it sets
    twistLock,      \* the flag last passed to arccube.lockTwist
    searches        \* one record for each Worker made by World.solve, in
                    \* order; the variables of the worker above are those
                    \* of the last one. posted: what the worker posted (kept
                    \* here once a later Worker is made, msgs until then);
                    \* handled: how many of these solver.onmessage has run
                    \* for; solved: the arguments of the calls of onSolved;
                    \* progress, errors: calls of onProgress and of
                    \* solver.onerror; unlocks: calls of lockTwist(false)

hqVars == <<hq, issued, opLog, before, pushes, pops, popRun, clearMark>>

solverVars == <<pc, stickers, solve_n, scopeStarts, scopeEnds, model, created,
                queue, visitedStates, range, round_i, round_v, twist_k,
                next_states, next_answers, batch_x, cost_to_goals, result,
                outcome, msgs, oracleCalls, goalKept, rekeeps, rejection,
                onErrorCalls, yielded, expansions, otherCalls, twistLock,
                searches>>

worldVars == <<twistLock, searches>>

vars == <<hqVars, solverVars>>

Priorities == 1..MaxPriority

Logged(log, e) ==
    IF Len(log) < MaxLog THEN Append(log, e) ELSE Append(Tail(log), e)

\* the entry of the array q that carries task t
EntryOf(q, t) == CHOOSE e \in {q[i] : i \in 1..Len(q)} : e.task = t

\* ------------------------------------------------------------------------
\* The puzzle (library arcanumcube, outside the repository): a ring of
\* RingSize stickers, all of colour 0 but for at most one sticker, the mark,
\* of colour 1 or 2.
\* Twist A moves every sticker one place on; twist B moves it two places on,
\* except that the last two places go to places 2 and 1, so that A and B do
\* not commute. The goal is the mark of colour 1 on the first place.
\* ------------------------------------------------------------------------
SINGLE_TWIST_LIST == <<"A", "B">>

getNextStickerColors(state, action) ==
    IF action = "A"
    THEN <<state[Len(state)]>> \o SubSeq(state, 1, Len(state) - 1)
    ELSE <<state[Len(state)], state[Len(state) - 1]>>
             \o SubSeq(state, 1, Len(state) - 2)

MatchGoalState(state) ==
    /\ state[1] = 1
    /\ \A j \in 2..Len(state) : state[j] = 0

\* one-hot encoding of the sticker colours
getArrayForTensor(state) ==
    [j \in 1..Len(state) |-> [c \in 1..3 |-> IF state[j] = c - 1 THEN 1 ELSE 0]]

\* the ring with a sticker of the given colour on the given place
Ring(place, colour) == [j \in 1..RingSize |-> IF j = place THEN colour ELSE 0]

\* initial states sent to the worker: the mark of colour 1 anywhere (solved
\* already, or solvable), a mark of colour 2 or no mark at all (no twist
\* sequence reaches the goal)
Inputs == {Ring(j, 1) : j \in 1..RingSize} \cup {Ring(1, 2), Ring(1, 0)}

\* the characters join('') makes of the sticker colours
ColorChars == <<"0", "1", "2", "3", "4", "5">>

\* next_state.join('')
Join(state) == [j \in 1..Len(state) |-> ColorChars[state[j] + 1]]

\* ------------------------------------------------------------------------
\* Pieces of solve
\* ------------------------------------------------------------------------
\* a priority that leaves the oracle's output out
PriorityWithoutDistance(len, distance) == LTenths * len

\* l * next_answer.length + distance with l = 0.3, in tenths
Priority(len, distance) == LTenths * len + 10 * distance

\* a while loop that stops with one node left
QueueLeftOffByOne(h) == HeapLength(h) > 1

\* the condition of the while loop of solve
QueueLeft(h) == HeapLength(h) > 0

\* a test that also keeps a successor recorded at the same length
KeepsOrEqual(ledger, id, len) ==
    IF id \notin DOMAIN ledger THEN TRUE ELSE ledger[id] >= len

\* a test that keeps a successor only when its state was never recorded
KeepsIfAbsent(ledger, id, len) == id \notin DOMAIN ledger

\* the test of getNextStateAndAnswers that keeps a successor
Keeps(ledger, id, len) ==
    IF id \notin DOMAIN ledger THEN TRUE ELSE ledger[id] > len

\* a ledger that keeps the first length recorded for a state
RecordedOnce(ledger, id, len) ==
    [f \in (DOMAIN ledger) \cup {id} |->
        IF f \in DOMAIN ledger THEN ledger[f] ELSE len]

\* visitedStates[id] = len
Recorded(ledger, id, len) ==
    [f \in (DOMAIN ledger) \cup {id} |-> IF f = id THEN len ELSE ledger[f]]

\* next_answers.forEach(...): heappush of the kept successors from index idx on
RECURSIVE InsertFrom(_, _, _, _, _)
InsertFrom(h, idx, states, answers, costs) ==
    IF idx > Len(answers) THEN h
    ELSE InsertFrom(HeapPush(h, Priority(Len(answers[idx]), costs[idx]),
                             [distance |-> costs[idx],
                              state |-> states[idx],
                              answer |-> answers[idx]]),
                    idx + 1, states, answers, costs)

\* the values model.predict may give for a batch of the given size
Predictions(size) == [1..size -> 0..MaxDistance]

\* the state reached from state by the twists of answer, in order
RECURSIVE Replay(_, _)
Replay(state, answer) ==
    IF answer = <<>> THEN state
    ELSE Replay(getNextStickerColors(state, Head(answer)), Tail(answer))

\* ------------------------------------------------------------------------
\* The HeapQueue driver: new HeapQueue(), then heappush / heappop / clear
\* ------------------------------------------------------------------------
InitHQ ==
    /\ hq = NewHeapQueue
    /\ issued = 0
    /\ opLog = <<>>
    /\ before = <<>>
    /\ pushes = 0
    /\ pops = 0
    /\ popRun = <<>>
    /\ clearMark = 0

InitSolver ==
    /\ pc = "idle"
    /\ stickers = <<>>
    /\ solve_n = 0
    /\ scopeStarts = 0
    /\ scopeEnds = 0
    /\ model = "none"
    /\ created = FALSE
    /\ queue = NewHeapQueue
    /\ visitedStates = <<>>
    /\ range = 0
    /\ round_i = 0
    /\ round_v = <<>>
    /\ twist_k = 1
    /\ next_states = <<>>
    /\ next_answers = <<>>
    /\ batch_x = <<>>
    /\ cost_to_goals = <<>>
    /\ result = <<>>
    /\ outcome = "none"
    /\ msgs = <<>>
    /\ oracleCalls = 0
    /\ goalKept = FALSE
    /\ rekeeps = 0
    /\ rejection = "none"
    /\ onErrorCalls = 0
    /\ yielded = <<>>
    /\ expansions = <<>>
    /\ otherCalls = {}
    /\ twistLock = FALSE
    /\ searches = <<>>

Init == InitHQ /\ InitSolver

DoPush ==
    /\ issued < MaxPushes
    /\ \E p \in Priorities :
          /\ hq' = HeapPush(hq, p, issued + 1)
          /\ opLog' = Logged(opLog, [op |-> "push", val |-> <<issued + 1>>])
    /\ issued' = issued + 1
    /\ before' = hq.queue
    /\ pushes' = pushes + 1
    /\ popRun' = <<>>
    /\ UNCHANGED <<pops, clearMark>>
    /\ UNCHANGED solverVars

DoPop ==
    LET r == HeapPop(hq)
    IN /\ hq' = r.heap
       /\ opLog' = Logged(opLog, [op |-> "pop", val |-> r.ret])
       /\ before' = hq.queue
       /\ pops' = IF r.ret = <<>> THEN pops ELSE pops + 1
       /\ popRun' = IF r.ret = <<>> THEN popRun
                    ELSE Append(popRun, EntryOf(hq.queue, r.ret[1]))
       /\ UNCHANGED <<issued, pushes, clearMark>>
       /\ UNCHANGED solverVars

DoClear ==
    /\ hq' = HeapClear(hq)
    /\ opLog' = Logged(opLog, [op |-> "clear", val |-> <<>>])
    /\ before' = hq.queue
    /\ pushes' = 0
    /\ pops' = 0
    /\ popRun' = <<>>
    /\ clearMark' = issued
    /\ UNCHANGED issued
    /\ UNCHANGED solverVars

NextHQ == DoPush \/ DoPop \/ DoClear

SpecHQ == Init /\ [][NextHQ]_vars

\* ------------------------------------------------------------------------
\* The solver worker: self.onmessage and solve
\* ------------------------------------------------------------------------
\* a range that is n whatever the length of the queue
MinTakesFirst(a, b) == a

Min(a, b) == IF a < b THEN a ELSE b

\* an onmessage whose solve loads the model whatever the initial state
OnMessageNoEarlyReturn ==
    /\ pc = "idle"
    /\ \E st \in Inputs, nn \in 1..MaxN :
          /\ stickers' = st
          /\ solve_n' = nn
    /\ pc' = "loading"
    /\ scopeStarts' = scopeStarts + 1
    /\ UNCHANGED <<scopeEnds, model, created, queue, visitedStates, range,
                   round_i, round_v, twist_k, next_states, next_answers,
                   batch_x, cost_to_goals, result, outcome, msgs, oracleCalls,
                   goalKept, rekeeps>>
    /\ UNCHANGED hqVars
    /\ UNCHANGED worldVars
    /\ UNCHANGED otherCalls
    /\ UNCHANGED <<rejection, onErrorCalls, yielded, expansions>>

\* self.onmessage calls solve, which runs up to its first await: startScope,
\* then the test for an initial state that is solved already
OnMessage ==
    /\ pc = "idle"
    /\ \E st \in Inputs, nn \in 1..MaxN :
          /\ stickers' = st
          /\ solve_n' = nn
          /\ IF MatchGoalState(st)
             THEN /\ pc' = "returned"
                  /\ result' = << <<>> >>
                  /\ outcome' = "alreadySolved"
             ELSE /\ pc' = "loading"
                  /\ UNCHANGED <<result, outcome>>
    /\ scopeStarts' = scopeStarts + 1
    /\ UNCHANGED <<scopeEnds, model, created, queue, visitedStates, range,
                   round_i, round_v, twist_k, next_states, next_answers,
                   batch_x, cost_to_goals, msgs, oracleCalls, goalKept,
                   rekeeps>>
    /\ UNCHANGED hqVars
    /\ UNCHANGED worldVars
    /\ UNCHANGED otherCalls
    /\ UNCHANGED <<rejection, onErrorCalls, yielded, expansions>>

\* a solve that keeps its queue and ledger outside the call: the initial
\* state is pushed on whatever the last call left
LoadModelSharedQueue ==
    /\ pc = "loading"
    /\ model' = "loaded"
    /\ created' = TRUE
    /\ queue' = HeapPush(queue, 0,
                         [distance |-> 0, state |-> stickers, answer |-> <<>>])
    /\ visitedStates' = Recorded(visitedStates, Join(stickers), 0)
    /\ pc' = "loop"
    /\ UNCHANGED <<stickers, solve_n, scopeStarts, scopeEnds, range, round_i,
                   round_v, twist_k, next_states, next_answers, batch_x,
                   cost_to_goals, result, outcome, msgs, oracleCalls,
                   goalKept, rekeeps>>
    /\ UNCHANGED hqVars
    /\ UNCHANGED worldVars
    /\ UNCHANGED otherCalls
    /\ UNCHANGED <<rejection, onErrorCalls, yielded, expansions>>

\* a solve that seeds the ledger with the initial state at a cost above 0
LoadModelSeedsAbove ==
    /\ pc = "loading"
    /\ model' = "loaded"
    /\ created' = TRUE
    /\ queue' = HeapPush(NewHeapQueue, 0,
                         [distance |-> 0, state |-> stickers, answer |-> <<>>])
    /\ visitedStates' = Recorded(<<>>, Join(stickers), RingSize)
    /\ pc' = "loop"
    /\ UNCHANGED <<stickers, solve_n, scopeStarts, scopeEnds, range, round_i,
                   round_v, twist_k, next_states, next_answers, batch_x,
                   cost_to_goals, result, outcome, msgs, oracleCalls,
                   goalKept, rekeeps>>
    /\ UNCHANGED hqVars
    /\ UNCHANGED worldVars
    /\ UNCHANGED otherCalls
    /\ UNCHANGED <<rejection, onErrorCalls, yielded, expansions>>

\* a solve whose ledger lives outside the call: the initial state is recorded
\* in the ledger the last call left
LoadModelSharedLedger ==
    /\ pc = "loading"
    /\ model' = "loaded"
    /\ created' = TRUE
    /\ queue' = HeapPush(NewHeapQueue, 0,
                         [distance |-> 0, state |-> stickers, answer |-> <<>>])
    /\ visitedStates' = Recorded(visitedStates, Join(stickers), 0)
    /\ pc' = "loop"
    /\ UNCHANGED <<stickers, solve_n, scopeStarts, scopeEnds, range, round_i,
                   round_v, twist_k, next_states, next_answers, batch_x,
                   cost_to_goals, result, outcome, msgs, oracleCalls,
                   goalKept, rekeeps>>
    /\ UNCHANGED hqVars
    /\ UNCHANGED worldVars
    /\ UNCHANGED otherCalls
    /\ UNCHANGED <<rejection, onErrorCalls, yielded, expansions>>

\* await tf.loadLayersModel resolves: the queue and the ledger are made and
\* seeded with the initial state
LoadModel ==
    /\ pc = "loading"
    /\ model' = "loaded"
    /\ created' = TRUE
    /\ queue' = HeapPush(NewHeapQueue, 0,
                         [distance |-> 0, state |-> stickers, answer |-> <<>>])
    /\ visitedStates' = Recorded(<<>>, Join(stickers), 0)
    /\ pc' = "loop"
    /\ UNCHANGED <<stickers, solve_n, scopeStarts, scopeEnds, range, round_i,
                   round_v, twist_k, next_states, next_answers, batch_x,
                   cost_to_goals, result, outcome, msgs, oracleCalls,
                   goalKept, rekeeps>>
    /\ UNCHANGED hqVars
    /\ UNCHANGED worldVars
    /\ UNCHANGED otherCalls
    /\ UNCHANGED <<rejection, onErrorCalls, yielded, expansions>>

\* the call of solve the variables describe, as it is kept while another runs
ThisCall ==
    [no |-> CHOOSE k \in 1..(Cardinality(otherCalls) + 1) :
                \A w \in otherCalls : w.no # k,
     stickers |-> stickers, solve_n |-> solve_n, pc |-> pc,
     result |-> result, outcome |-> outcome]

\* await tf.loadLayersModel rejects: solve rejects, and the then-callback of
\* onmessage never runs
LoadModelFails ==
    /\ pc = "loading"
    /\ pc' = "failed"
    /\ outcome' = "loadFailed"
    /\ UNCHANGED <<stickers, solve_n, scopeStarts, scopeEnds, model, created,
                   queue, visitedStates, range, round_i, round_v, twist_k,
                   next_states, next_answers, batch_x, cost_to_goals, result,
                   msgs, oracleCalls, goalKept, rekeeps>>
    /\ UNCHANGED hqVars
    /\ UNCHANGED worldVars
    /\ UNCHANGED otherCalls
    /\ rejection' = "pending"
    /\ UNCHANGED <<onErrorCalls, yielded, expansions>>

\* while (queue.length() > 0): a round starts, the generator takes its range
BeginRound ==
    /\ pc = "loop"
    /\ QueueLeft(queue)
    /\ next_states' = <<>>
    /\ next_answers' = <<>>
    /\ batch_x' = <<>>
    /\ range' = Min(solve_n, HeapLength(queue))
    /\ round_i' = 0
    /\ pc' = "pop"
    /\ UNCHANGED <<stickers, solve_n, scopeStarts, scopeEnds, model, created,
                   queue, visitedStates, round_v, twist_k, cost_to_goals,
                   result, outcome, msgs, oracleCalls, goalKept, rekeeps>>
    /\ UNCHANGED hqVars
    /\ UNCHANGED worldVars
    /\ UNCHANGED otherCalls
    /\ UNCHANGED <<rejection, onErrorCalls, yielded, expansions>>

\* the while loop ends: "Answer not found"
GiveUp ==
    /\ pc = "loop"
    /\ ~QueueLeft(queue)
    /\ scopeEnds' = scopeEnds + 1
    /\ result' = << <<>> >>
    /\ outcome' = "notFound"
    /\ pc' = "returned"
    /\ UNCHANGED <<stickers, solve_n, scopeStarts, model, created, queue,
                   visitedStates, range, round_i, round_v, twist_k,
                   next_states, next_answers, batch_x, cost_to_goals, msgs,
                   oracleCalls, goalKept, rekeeps>>
    /\ UNCHANGED hqVars
    /\ UNCHANGED worldVars
    /\ UNCHANGED otherCalls
    /\ UNCHANGED <<rejection, onErrorCalls, yielded, expansions>>

\* for (let i = 0; i < range; i++) { const v = queue.heappop(); if (!v) continue;
PopNode ==
    /\ pc = "pop"
    /\ round_i < range
    /\ LET r == HeapPop(queue)
       IN /\ queue' = r.heap
          /\ round_v' = r.ret
          /\ IF r.ret = <<>>
             THEN /\ round_i' = round_i + 1
                  /\ pc' = "pop"
             ELSE /\ round_i' = round_i
                  /\ pc' = "expand"
    /\ twist_k' = 1
    /\ UNCHANGED <<stickers, solve_n, scopeStarts, scopeEnds, model, created,
                   visitedStates, range, next_states, next_answers, batch_x,
                   cost_to_goals, result, outcome, msgs, oracleCalls,
                   goalKept, rekeeps>>
    /\ UNCHANGED hqVars
    /\ UNCHANGED worldVars
    /\ UNCHANGED otherCalls
    /\ expansions' =
          IF HeapPop(queue).ret = <<>> THEN expansions
          ELSE Append(expansions,
                      [id |-> Join(HeapPop(queue).ret[1].state),
                       len |-> Len(HeapPop(queue).ret[1].answer)])
    /\ UNCHANGED <<rejection, onErrorCalls, yielded>>

\* the generator is exhausted: the for-of loop of solve ends
EndRound ==
    /\ pc = "pop"
    /\ ~(round_i < range)
    /\ pc' = "predict"
    /\ UNCHANGED <<stickers, solve_n, scopeStarts, scopeEnds, model, created,
                   queue, visitedStates, range, round_i, round_v, twist_k,
                   next_states, next_answers, batch_x, cost_to_goals, result,
                   outcome, msgs, oracleCalls, goalKept, rekeeps>>
    /\ UNCHANGED hqVars
    /\ UNCHANGED worldVars
    /\ UNCHANGED otherCalls
    /\ UNCHANGED <<rejection, onErrorCalls, yielded, expansions>>

\* a successor whose answer is the popped node's own array, not a clone:
\* it holds every action pushed on it so far
NextOfNoClone(node, action) ==
    [state |-> getNextStickerColors(node.state, action),
     answer |-> IF action = SINGLE_TWIST_LIST[1]
                THEN Append(node.answer, action)
                ELSE Append(Append(node.answer, SINGLE_TWIST_LIST[1]), action)]

\* a successor that carries the popped node's answer without the action
NextOfNoPush(node, action) ==
    [state |-> getNextStickerColors(node.state, action),
     answer |-> node.answer]

\* a successor whose answer has the action in front of the parent's answer
NextOfPrepend(node, action) ==
    [state |-> getNextStickerColors(node.state, action),
     answer |-> <<action>> \o node.answer]

\* the successor of the popped node by the action at twist_k
NextOf(node, action) ==
    [state |-> getNextStickerColors(node.state, action),
     answer |-> Append(node.answer, action)]

CurrentNext == NextOf(round_v[1], SINGLE_TWIST_LIST[twist_k])

\* the generator goes on to the next action, or to the next pop
Advance ==
    IF twist_k < Len(SINGLE_TWIST_LIST)
    THEN /\ twist_k' = twist_k + 1
         /\ pc' = "expand"
         /\ round_i' = round_i
    ELSE /\ twist_k' = 1
         /\ round_i' = round_i + 1
         /\ pc' = "pop"

\* a progress post that puts the message before the ones posted so far
ProgressAtFront(sent, distance) ==
    IF distance > 0
    THEN <<[distance |-> distance, answer |-> <<>>]>> \o sent
    ELSE sent

\* a progress post made for a distance of 0 too
ProgressAlways(sent, distance) ==
    IF distance >= 0
    THEN Append(sent, [distance |-> distance, answer |-> <<>>])
    ELSE sent

\* a progress post made whatever the distance is
ProgressUnfiltered(sent, distance) ==
    Append(sent, [distance |-> distance, answer |-> <<>>])

\* if (distance > 0) self.postMessage({ distance })
Progress(sent, distance) ==
    IF distance > 0
    THEN Append(sent, [distance |-> distance, answer |-> <<>>])
    ELSE sent

\* the successor is in the ledger at no greater length: nothing is yielded
SkipSuccessor ==
    /\ pc = "expand"
    /\ ~Keeps(visitedStates, Join(CurrentNext.state), Len(CurrentNext.answer))
    /\ Advance
    /\ UNCHANGED <<stickers, solve_n, scopeStarts, scopeEnds, model, created,
                   queue, visitedStates, range, round_v, next_states,
                   next_answers, batch_x, cost_to_goals, result, outcome, msgs,
                   oracleCalls, goalKept, rekeeps>>
    /\ UNCHANGED hqVars
    /\ UNCHANGED worldVars
    /\ UNCHANGED otherCalls
    /\ UNCHANGED <<rejection, onErrorCalls, yielded, expansions>>

\* a loop of solve whose goal test is passed over: any yielded successor
\* joins the round's batch
KeepSuccessorUntested ==
    /\ pc = "expand"
    /\ Keeps(visitedStates, Join(CurrentNext.state), Len(CurrentNext.answer))
    /\ visitedStates' = Recorded(visitedStates, Join(CurrentNext.state),
                                 Len(CurrentNext.answer))
    /\ msgs' = Progress(msgs, round_v[1].distance)
    /\ next_states' = Append(next_states, CurrentNext.state)
    /\ next_answers' = Append(next_answers, CurrentNext.answer)
    /\ batch_x' = Append(batch_x, getArrayForTensor(CurrentNext.state))
    /\ Advance
    /\ UNCHANGED <<stickers, solve_n, scopeStarts, scopeEnds, model, created,
                   queue, range, round_v, cost_to_goals, result, outcome,
                   oracleCalls, goalKept>>
    /\ rekeeps' = IF Join(CurrentNext.state) \in DOMAIN visitedStates
                  THEN rekeeps + 1 ELSE rekeeps
    /\ UNCHANGED hqVars
    /\ UNCHANGED worldVars
    /\ UNCHANGED otherCalls
    /\ yielded' = Append(yielded,
                         [call |-> ThisCall.no,
                          distance |-> round_v[1].distance,
                          len |-> Len(CurrentNext.answer),
                          sent |-> IF Len(msgs') > Len(msgs)
                                   THEN Len(msgs') ELSE 0])
    /\ UNCHANGED <<rejection, onErrorCalls, expansions>>

\* the successor is yielded and is not the goal: it joins the round's batch
KeepSuccessor ==
    /\ pc = "expand"
    /\ Keeps(visitedStates, Join(CurrentNext.state), Len(CurrentNext.answer))
    /\ ~MatchGoalState(CurrentNext.state)
    /\ visitedStates' = Recorded(visitedStates, Join(CurrentNext.state),
                                 Len(CurrentNext.answer))
    /\ msgs' = Progress(msgs, round_v[1].distance)
    /\ next_states' = Append(next_states, CurrentNext.state)
    /\ next_answers' = Append(next_answers, CurrentNext.answer)
    /\ batch_x' = Append(batch_x, getArrayForTensor(CurrentNext.state))
    /\ Advance
    /\ UNCHANGED <<stickers, solve_n, scopeStarts, scopeEnds, model, created,
                   queue, range, round_v, cost_to_goals, result, outcome,
                   oracleCalls, goalKept>>
    /\ rekeeps' = IF Join(CurrentNext.state) \in DOMAIN visitedStates
                  THEN rekeeps + 1 ELSE rekeeps
    /\ UNCHANGED hqVars
    /\ UNCHANGED worldVars
    /\ UNCHANGED otherCalls
    /\ yielded' = Append(yielded,
                         [call |-> ThisCall.no,
                          distance |-> round_v[1].distance,
                          len |-> Len(CurrentNext.answer),
                          sent |-> IF Len(msgs') > Len(msgs)
                                   THEN Len(msgs') ELSE 0])
    /\ UNCHANGED <<rejection, onErrorCalls, expansions>>

\* a loop of solve that tests for the goal only after the round: a yielded
\* successor that is the goal joins the batch like any other
FindGoalAfterRound ==
    /\ pc = "expand"
    /\ Keeps(visitedStates, Join(CurrentNext.state), Len(CurrentNext.answer))
    /\ MatchGoalState(CurrentNext.state)
    /\ visitedStates' = Recorded(visitedStates, Join(CurrentNext.state),
                                 Len(CurrentNext.answer))
    /\ msgs' = Progress(msgs, round_v[1].distance)
    /\ next_states' = Append(next_states, CurrentNext.state)
    /\ next_answers' = Append(next_answers, CurrentNext.answer)
    /\ batch_x' = Append(batch_x, getArrayForTensor(CurrentNext.state))
    /\ Advance
    /\ goalKept' = TRUE
    /\ UNCHANGED <<stickers, solve_n, scopeStarts, scopeEnds, model, created,
                   queue, range, round_v, cost_to_goals, result, outcome,
                   oracleCalls>>
    /\ rekeeps' = IF Join(CurrentNext.state) \in DOMAIN visitedStates
                  THEN rekeeps + 1 ELSE rekeeps
    /\ UNCHANGED hqVars
    /\ UNCHANGED worldVars
    /\ UNCHANGED otherCalls
    /\ yielded' = Append(yielded,
                         [call |-> ThisCall.no,
                          distance |-> round_v[1].distance,
                          len |-> Len(CurrentNext.answer),
                          sent |-> IF Len(msgs') > Len(msgs)
                                   THEN Len(msgs') ELSE 0])
    /\ UNCHANGED <<rejection, onErrorCalls, expansions>>

\* the successor is yielded and is the goal: solve returns its answer
FindGoal ==
    /\ pc = "expand"
    /\ Keeps(visitedStates, Join(CurrentNext.state), Len(CurrentNext.answer))
    /\ MatchGoalState(CurrentNext.state)
    /\ visitedStates' = Recorded(visitedStates, Join(CurrentNext.state),
                                 Len(CurrentNext.answer))
    /\ msgs' = Progress(msgs, round_v[1].distance)
    /\ next_states' = Append(next_states, CurrentNext.state)
    /\ next_answers' = Append(next_answers, CurrentNext.answer)
    /\ model' = "disposed"
    /\ scopeEnds' = scopeEnds + 1
    /\ result' = <<CurrentNext.answer>>
    /\ outcome' = "found"
    /\ goalKept' = TRUE
    /\ pc' = "returned"
    /\ UNCHANGED <<stickers, solve_n, scopeStarts, created, queue, range,
                   round_i, round_v, twist_k, batch_x, cost_to_goals,
                   oracleCalls>>
    /\ rekeeps' = IF Join(CurrentNext.state) \in DOMAIN visitedStates
                  THEN rekeeps + 1 ELSE rekeeps
    /\ UNCHANGED hqVars
    /\ UNCHANGED worldVars
    /\ UNCHANGED otherCalls
    /\ yielded' = Append(yielded,
                         [call |-> ThisCall.no,
                          distance |-> round_v[1].distance,
                          len |-> Len(CurrentNext.answer),
                          sent |-> IF Len(msgs') > Len(msgs)
                                   THEN Len(msgs') ELSE 0])
    /\ UNCHANGED <<rejection, onErrorCalls, expansions>>

\* tf.tidy(() => model.predict(tf.tensor(x), { batchSize }).dataSync())
Predict ==
    /\ pc = "predict"
    /\ \E c \in Predictions(Len(batch_x)) : cost_to_goals' = c
    /\ oracleCalls' = oracleCalls + 1
    /\ pc' = "insert"
    /\ UNCHANGED <<stickers, solve_n, scopeStarts, scopeEnds, model, created,
                   queue, visitedStates, range, round_i, round_v, twist_k,
                   next_states, next_answers, batch_x, result, outcome, msgs,
                   goalKept, rekeeps>>
    /\ UNCHANGED hqVars
    /\ UNCHANGED worldVars
    /\ UNCHANGED otherCalls
    /\ UNCHANGED <<rejection, onErrorCalls, yielded, expansions>>

\* a solve that catches the throw of model.predict and calls it again
PredictFailsAndRetries ==
    /\ pc = "predict"
    /\ oracleCalls' = oracleCalls + 1
    /\ pc' = "predict"
    /\ outcome' = "predictFailed"
    /\ UNCHANGED <<stickers, solve_n, scopeStarts, scopeEnds, model, created,
                   queue, visitedStates, range, round_i, round_v, twist_k,
                   next_states, next_answers, batch_x, cost_to_goals, result,
                   msgs, goalKept, rekeeps>>
    /\ UNCHANGED hqVars
    /\ UNCHANGED worldVars
    /\ UNCHANGED otherCalls
    /\ UNCHANGED <<rejection, onErrorCalls, yielded, expansions>>

\* model.predict throws: solve rejects
PredictFails ==
    /\ pc = "predict"
    /\ oracleCalls' = oracleCalls + 1
    /\ pc' = "failed"
    /\ outcome' = "predictFailed"
    /\ UNCHANGED <<stickers, solve_n, scopeStarts, scopeEnds, model, created,
                   queue, visitedStates, range, round_i, round_v, twist_k,
                   next_states, next_answers, batch_x, cost_to_goals, result,
                   msgs, goalKept, rekeeps>>
    /\ UNCHANGED hqVars
    /\ UNCHANGED worldVars
    /\ UNCHANGED otherCalls
    /\ rejection' = "pending"
    /\ UNCHANGED <<onErrorCalls, yielded, expansions>>

\* next_answers.forEach(... queue.heappush ...)
Insert ==
    /\ pc = "insert"
    /\ queue' = InsertFrom(queue, 1, next_states, next_answers, cost_to_goals)
    /\ pc' = "loop"
    /\ UNCHANGED <<stickers, solve_n, scopeStarts, scopeEnds, model, created,
                   visitedStates, range, round_i, round_v, twist_k,
                   next_states, next_answers, batch_x, cost_to_goals, result,
                   outcome, msgs, oracleCalls, goalKept, rekeeps>>
    /\ UNCHANGED hqVars
    /\ UNCHANGED worldVars
    /\ UNCHANGED otherCalls
    /\ UNCHANGED <<rejection, onErrorCalls, yielded, expansions>>

\* solve(...).then((answer) => self.postMessage({ distance: -1, answer }))
PostAnswer ==
    /\ pc = "returned"
    /\ msgs' = Append(msgs, [distance |-> -1, answer |-> result])
    /\ pc' = "done"
    /\ UNCHANGED <<stickers, solve_n, scopeStarts, scopeEnds, model, created,
                   queue, visitedStates, range, round_i, round_v, twist_k,
                   next_states, next_answers, batch_x, cost_to_goals, result,
                   outcome, oracleCalls, goalKept, rekeeps>>
    /\ UNCHANGED hqVars
    /\ UNCHANGED worldVars
    /\ UNCHANGED otherCalls
    /\ UNCHANGED <<rejection, onErrorCalls, yielded, expansions>>

\* every variable of the search itself
searchVars == <<pc, stickers, solve_n, scopeStarts, scopeEnds, model, created,
                queue, visitedStates, range, round_i, round_v, twist_k,
                next_states, next_answers, batch_x, cost_to_goals, result,
                outcome, msgs, oracleCalls, goalKept, rekeeps, yielded,
                expansions>>

\* the promise of solve was rejected and onmessage attached no rejection
\* handler: the worker's runtime raises unhandledrejection in the worker and
\* nothing reaches the main thread
RejectionDropped ==
    /\ rejection = "pending"
    /\ rejection' = "dropped"
    /\ UNCHANGED <<searchVars, onErrorCalls>>
    /\ UNCHANGED hqVars
    /\ UNCHANGED worldVars
    /\ UNCHANGED otherCalls

\* a runtime that turns the unhandled rejection into an error event on the
\* Worker object: solver.onerror of World.solve runs
RejectionReported ==
    /\ rejection = "pending"
    /\ rejection' = "reported"
    /\ onErrorCalls' = onErrorCalls + 1
    /\ twistLock' = FALSE
    /\ searches' = IF searches = <<>> THEN searches
                   ELSE [searches EXCEPT ![Len(searches)].errors = @ + 1,
                                         ![Len(searches)].unlocks = @ + 1]
    /\ UNCHANGED searchVars
    /\ UNCHANGED hqVars
    /\ UNCHANGED otherCalls

Next ==
    \/ OnMessage
    \/ LoadModel
    \/ LoadModelFails
    \/ BeginRound
    \/ GiveUp
    \/ PopNode
    \/ EndRound
    \/ SkipSuccessor
    \/ KeepSuccessor
    \/ FindGoal
    \/ Predict
    \/ PredictFails
    \/ Insert
    \/ PostAnswer
    \/ RejectionDropped
    \/ RejectionReported

Spec == Init /\ [][Next]_vars

\* the awaited calls settle and the worker runs each of its steps
FairSpec == Spec /\ WF_vars(Next)

\* model.predict of a stub model: 0 for the goal state and 1 for any other,
\* one of the Predictions
StubCosts(states) ==
    [j \in 1..Len(states) |-> IF MatchGoalState(states[j]) THEN 0 ELSE 1]

\* tf.tidy(() => model.predict(...).dataSync()) with the stub model loaded
PredictStub ==
    /\ pc = "predict"
    /\ cost_to_goals' = StubCosts(next_states)
    /\ oracleCalls' = oracleCalls + 1
    /\ pc' = "insert"
    /\ UNCHANGED <<stickers, solve_n, scopeStarts, scopeEnds, model, created,
                   queue, visitedStates, range, round_i, round_v, twist_k,
                   next_states, next_answers, batch_x, result, outcome, msgs,
                   goalKept, rekeeps>>
    /\ UNCHANGED hqVars
    /\ UNCHANGED worldVars
    /\ UNCHANGED otherCalls
    /\ UNCHANGED <<rejection, onErrorCalls, yielded, expansions>>

\* the worker with a stub model that loads and evaluates without failure
StubNext ==
    \/ OnMessage
    \/ LoadModel
    \/ BeginRound
    \/ GiveUp
    \/ PopNode
    \/ EndRound
    \/ SkipSuccessor
    \/ KeepSuccessor
    \/ FindGoal
    \/ PredictStub
    \/ Insert
    \/ PostAnswer

StubSpec == Init /\ [][StubNext]_vars

\* the values of a model whose output is not clamped at 0: a network's last
\* layer may give a negative number for a state
SignedPredictions(size) == [1..size -> (-1)..1]

\* tf.tidy(() => model.predict(...).dataSync()) with such a model loaded
PredictSigned ==
    /\ pc = "predict"
    /\ \E c \in SignedPredictions(Len(batch_x)) : cost_to_goals' = c
    /\ oracleCalls' = oracleCalls + 1
    /\ pc' = "insert"
    /\ UNCHANGED <<stickers, solve_n, scopeStarts, scopeEnds, model, created,
                   queue, visitedStates, range, round_i, round_v, twist_k,
                   next_states, next_answers, batch_x, result, outcome, msgs,
                   goalKept, rekeeps>>
    /\ UNCHANGED hqVars
    /\ UNCHANGED worldVars
    /\ UNCHANGED otherCalls
    /\ UNCHANGED <<rejection, onErrorCalls, yielded, expansions>>

\* the worker with a model that may give negative distances
SignedNext ==
    \/ OnMessage
    \/ LoadModel
    \/ LoadModelFails
    \/ BeginRound
    \/ GiveUp
    \/ PopNode
    \/ EndRound
    \/ SkipSuccessor
    \/ KeepSuccessor
    \/ FindGoal
    \/ PredictSigned
    \/ PredictFails
    \/ Insert
    \/ PostAnswer
    \/ RejectionDropped
    \/ RejectionReported

SignedSpec == Init /\ [][SignedNext]_vars

\* self.onmessage for a further request while the earlier call of solve waits
\* for the model or is over: solve is called again, with the n that onmessage
\* passes to every call, and runs to its first await
OnMessageAgain ==
    /\ pc \in {"loading", "done"}
    /\ Cardinality(otherCalls) + 1 < MaxCalls
    /\ otherCalls' = otherCalls \cup {ThisCall}
    /\ \E st \in Inputs :
          /\ stickers' = st
          /\ IF MatchGoalState(st)
             THEN /\ pc' = "returned"
                  /\ result' = << <<>> >>
                  /\ outcome' = "alreadySolved"
             ELSE /\ pc' = "loading"
                  /\ result' = <<>>
                  /\ outcome' = "none"
    /\ scopeStarts' = scopeStarts + 1
    /\ UNCHANGED <<solve_n, scopeEnds, model, created, queue, visitedStates,
                   range, round_i, round_v, twist_k, next_states,
                   next_answers, batch_x, cost_to_goals, msgs, oracleCalls,
                   goalKept, rekeeps>>
    /\ UNCHANGED hqVars
    /\ UNCHANGED worldVars
    /\ UNCHANGED <<rejection, onErrorCalls, yielded, expansions>>

\* the worker, with nothing on its stack, runs the continuation of another
\* call of solve: the one after its await, or the then-callback of its promise
Resume ==
    /\ pc \in {"loading", "returned", "done"}
    /\ \E w \in otherCalls :
          /\ w.pc \in {"loading", "returned"}
          /\ otherCalls' = (otherCalls \ {w}) \cup {ThisCall}
          /\ stickers' = w.stickers
          /\ solve_n' = w.solve_n
          /\ pc' = w.pc
          /\ result' = w.result
          /\ outcome' = w.outcome
    /\ UNCHANGED <<scopeStarts, scopeEnds, model, created, queue,
                   visitedStates, range, round_i, round_v, twist_k,
                   next_states, next_answers, batch_x, cost_to_goals, msgs,
                   oracleCalls, goalKept, rekeeps>>
    /\ UNCHANGED hqVars
    /\ UNCHANGED worldVars
    /\ UNCHANGED <<rejection, onErrorCalls, yielded, expansions>>

\* one worker that receives up to MaxCalls requests, with the stub model
PairNext ==
    \/ StubNext
    \/ OnMessageAgain
    \/ Resume

PairSpec == Init /\ [][PairNext]_vars

\* ------------------------------------------------------------------------
\* The main thread: World.solve
\* ------------------------------------------------------------------------
\* the record of a search that World.solve has just started
NewSearch ==
    [posted |-> <<>>, handled |-> 0, solved |-> <<>>, progress |-> 0,
     errors |-> 0, unlocks |-> 0]

\* what the worker of search k has posted so far
Posted(k) == IF k = Len(searches) THEN msgs ELSE searches[k].posted

\* msg.answer || []
AnswerOrEmpty(msg) == IF msg.answer = <<>> THEN <<>> ELSE msg.answer[1]

\* a handler that releases the lock for every message
HandleMessageUnlocksAlways(s, lock, msg) ==
    IF msg.distance = -1
    THEN [search |-> [s EXCEPT !.handled = @ + 1,
                               !.unlocks = @ + 1,
                               !.solved = Append(@, AnswerOrEmpty(msg))],
          lock |-> FALSE]
    ELSE [search |-> [s EXCEPT !.handled = @ + 1, !.progress = @ + 1,
                               !.unlocks = @ + 1],
          lock |-> FALSE]

\* solver.onmessage run for msg: the record of its search and the lock after
HandleMessage(s, lock, msg) ==
    IF msg.distance = -1
    THEN [search |-> [s EXCEPT !.handled = @ + 1,
                               !.unlocks = @ + 1,
                               !.solved = Append(@, AnswerOrEmpty(msg))],
          lock |-> FALSE]
    ELSE [search |-> [s EXCEPT !.handled = @ + 1, !.progress = @ + 1],
          lock |-> lock]

\* World.solve when the cube exists and isTwisting() is false (it returns at
\* once otherwise): lockTwist(true), new Worker, postMessage of the stickers,
\* which self.onmessage of the new worker then receives. The worker made
\* before, if any, has nothing left to run by then.
WorldSolve ==
    /\ Len(searches) < MaxCalls
    /\ IF searches = <<>> THEN pc = "idle"
       ELSE \/ pc = "done"
            \/ (pc = "failed" /\ rejection # "pending")
    /\ twistLock' = TRUE
    /\ searches' =
          Append(IF searches = <<>> THEN searches
                 ELSE [searches EXCEPT ![Len(searches)].posted = msgs],
                 NewSearch)
    /\ pc' = "idle"
    /\ stickers' = <<>>
    /\ UNCHANGED solve_n
    /\ scopeStarts' = 0
    /\ scopeEnds' = 0
    /\ model' = "none"
    /\ created' = FALSE
    /\ queue' = NewHeapQueue
    /\ visitedStates' = <<>>
    /\ range' = 0
    /\ round_i' = 0
    /\ round_v' = <<>>
    /\ twist_k' = 1
    /\ next_states' = <<>>
    /\ next_answers' = <<>>
    /\ batch_x' = <<>>
    /\ cost_to_goals' = <<>>
    /\ result' = <<>>
    /\ outcome' = "none"
    /\ msgs' = <<>>
    /\ oracleCalls' = 0
    /\ goalKept' = FALSE
    /\ rekeeps' = 0
    /\ rejection' = "none"
    /\ onErrorCalls' = 0
    /\ yielded' = <<>>
    /\ expansions' = <<>>
    /\ UNCHANGED otherCalls
    /\ UNCHANGED hqVars

\* arccube.getStickerColors() when World.solve is called: the cube solved
\* already, two twists from solved, or in a state that no twists solve
WorldInputs == {Ring(1, 1), Ring(RingSize - 1, 1), Ring(1, 0)}

\* self.onmessage of a worker that World.solve has posted its request to:
\* as OnMessage, with the stickers of the cube and the n that onmessage
\* passes to every call of solve, the same in every worker
Requested ==
    /\ searches # <<>>
    /\ pc = "idle"
    /\ \E st \in WorldInputs,
          nn \in (IF Len(searches) = 1 THEN 1..MaxN ELSE {solve_n}) :
          /\ stickers' = st
          /\ solve_n' = nn
          /\ IF MatchGoalState(st)
             THEN /\ pc' = "returned"
                  /\ result' = << <<>> >>
                  /\ outcome' = "alreadySolved"
             ELSE /\ pc' = "loading"
                  /\ UNCHANGED <<result, outcome>>
    /\ scopeStarts' = scopeStarts + 1
    /\ UNCHANGED <<scopeEnds, model, created, queue, visitedStates, range,
                   round_i, round_v, twist_k, next_states, next_answers,
                   batch_x, cost_to_goals, msgs, oracleCalls, goalKept,
                   rekeeps>>
    /\ UNCHANGED hqVars
    /\ UNCHANGED worldVars
    /\ UNCHANGED otherCalls
    /\ UNCHANGED <<rejection, onErrorCalls, yielded, expansions>>

\* solver.onmessage: the main thread takes the next message of one of the
\* workers
SolverOnMessage ==
    /\ \E k \in 1..Len(searches) :
          /\ searches[k].handled < Len(Posted(k))
          /\ LET r == HandleMessage(searches[k], twistLock,
                                    Posted(k)[searches[k].handled + 1])
             IN /\ searches' = [searches EXCEPT ![k] = r.search]
                /\ twistLock' = r.lock
    /\ UNCHANGED <<searchVars, rejection, onErrorCalls>>
    /\ UNCHANGED hqVars
    /\ UNCHANGED otherCalls

\* the steps of the workers, with the stub model, and of the handlers
WorldRuns ==
    \/ Requested
    \/ LoadModel
    \/ LoadModelFails
    \/ BeginRound
    \/ GiveUp
    \/ PopNode
    \/ EndRound
    \/ SkipSuccessor
    \/ KeepSuccessor
    \/ FindGoal
    \/ PredictStub
    \/ PredictFails
    \/ Insert
    \/ PostAnswer
    \/ RejectionDropped
    \/ RejectionReported
    \/ SolverOnMessage

\* the page: World.solve called up to MaxCalls times
WorldNext ==
    \/ WorldSolve
    \/ WorldRuns

WorldSpec == Init /\ [][WorldNext]_vars

\* the workers run and the main thread handles the events it is sent; the
\* user need not ask for another search
FairWorldSpec == WorldSpec /\ WF_vars(WorldRuns)

\* ------------------------------------------------------------------------
\* Properties of the HeapQueue
\* ------------------------------------------------------------------------
LastOp == IF opLog = <<>> THEN "none" ELSE opLog[Len(opLog)].op

LastVal == IF opLog = <<>> THEN <<>> ELSE opLog[Len(opLog)].val

\* the last operation was a heappop that returned a task
PoppedTask == LastOp = "pop" /\ LastVal # <<>>

BeforeEntries == {before[i] : i \in 1..Len(before)}

\* C1: a heappop on a non-empty queue returns a task of minimal priority among
\* the entries held at that moment, and consecutive heappops return tasks in
\* non-decreasing priority order.
PopReturnsMinPriority ==
    /\ PoppedTask =>
          \A e \in BeforeEntries : EntryOf(before, LastVal[1]).priority <= e.priority
    /\ \A i \in 1..Len(popRun) : \A j \in i..Len(popRun) :
          popRun[i].priority <= popRun[j].priority

PopReturnsMinPriorityWitness ==
    /\ PoppedTask
    /\ Len(before) >= 3
    /\ \E e \in BeforeEntries : e.priority > EntryOf(before, LastVal[1]).priority
    /\ Len(popRun) >= 3
    /\ popRun[1].priority < popRun[3].priority

\* C2: among the entries sharing the minimal priority, heappop returns the
\* one pushed earliest.
PopIsFifoAmongEqualPriorities ==
    PoppedTask =>
        \A e \in BeforeEntries :
            e.priority = EntryOf(before, LastVal[1]).priority
                => EntryOf(before, LastVal[1]).counter <= e.counter

\* C3: length() is the number of heappush calls minus the number of heappop
\* calls that returned a task, and a heappop on an empty queue leaves length()
\* unchanged.
LengthIsPushesMinusPops ==
    /\ HeapLength(hq) = pushes - pops
    /\ (LastOp = "pop" /\ LastVal = <<>>) => HeapLength(hq) = Len(before)

LengthIsPushesMinusPopsWitness ==
    /\ pushes >= 3
    /\ pops >= 2
    /\ HeapLength(hq) >= 1
    /\ LastOp = "pop"

\* C4: heappop on an empty queue returns undefined and leaves the queue
\* empty, and a heappush followed by a heappop then returns the pushed task.
PopOnEmptyIsUndefined ==
    /\ (LastOp = "pop" /\ before = <<>>) => (LastVal = <<>> /\ hq.queue = <<>>)
    /\ (/\ Len(opLog) = 3
        /\ opLog[1].op = "pop" /\ opLog[1].val = <<>>
        /\ opLog[2].op = "push"
        /\ opLog[3].op = "pop") => opLog[3].val = opLog[2].val

PopOnEmptyIsUndefinedWitness ==
    /\ Len(opLog) = 3
    /\ opLog[1].op = "pop" /\ opLog[1].val = <<>>
    /\ opLog[2].op = "push"
    /\ opLog[3].op = "pop" /\ opLog[3].val # <<>>
    /\ clearMark = 0

\* C5: after clear() the length is 0 and only entries pushed after the clear
\* are held and returned, the smallest priority among them first.
ClearDiscardsEverything ==
    /\ LastOp = "clear" => HeapLength(hq) = 0
    /\ \A i \in 1..Len(hq.queue) : hq.queue[i].task > clearMark
    /\ PoppedTask =>
          /\ LastVal[1] > clearMark
          /\ \A e \in BeforeEntries :
                /\ e.task > clearMark
                /\ EntryOf(before, LastVal[1]).priority <= e.priority

ClearDiscardsEverythingWitness ==
    /\ clearMark >= 2
    /\ PoppedTask
    /\ Len(before) >= 2
    /\ \E e \in BeforeEntries : e.priority > EntryOf(before, LastVal[1]).priority

\* ------------------------------------------------------------------------
\* Properties of the search
\* ------------------------------------------------------------------------
AllStates == [1..RingSize -> 0..2]

GoalStates == {st \in AllStates : MatchGoalState(st)}

Twists == {SINGLE_TWIST_LIST[j] : j \in 1..Len(SINGLE_TWIST_LIST)}

ProgressMessages == {j \in 1..Len(msgs) : msgs[j].distance # -1}

Returned == pc \in {"returned", "done"}

\* C6: when the initial state satisfies the goal test, solve returns the
\* empty answer with the model never loaded or called, the queue and the
\* ledger never made, and no progress message posted.
SolvedAlreadyReturnsAtOnce ==
    (pc # "idle" /\ MatchGoalState(stickers)) =>
        /\ Returned
        /\ result = << <<>> >>
        /\ model = "none"
        /\ oracleCalls = 0
        /\ ~created
        /\ queue = NewHeapQueue
        /\ visitedStates = <<>>
        /\ ProgressMessages = {}

SolvedAlreadyReturnsAtOnceWitness ==
    /\ pc = "done"
    /\ MatchGoalState(stickers)
    /\ msgs = <<[distance |-> -1, answer |-> << <<>> >>]>>

\* C7: a non-empty answer returned by solve consists of moves of the legal
\* move list and leads from the initial state to a state satisfying the goal
\* test.
AnswerReachesGoal ==
    (Returned /\ result[1] # <<>>) =>
        /\ \A j \in 1..Len(result[1]) : result[1][j] \in Twists
        /\ MatchGoalState(Replay(stickers, result[1]))

AnswerReachesGoalWitness ==
    /\ pc = "done"
    /\ Len(result[1]) >= 3
    /\ \E j \in 1..Len(result[1]) : result[1][j] = "A"
    /\ \E j \in 1..Len(result[1]) : result[1][j] = "B"
    /\ msgs[Len(msgs)] = [distance |-> -1, answer |-> result]

\* a successor joins the round's batch only when the ledger did not hold its
\* fingerprint or held it at a strictly greater length, and no recorded
\* length ever grows
KeptOnlyWhenShorter ==
    /\ \A id \in DOMAIN visitedStates :
          /\ id \in DOMAIN visitedStates'
          /\ visitedStates'[id] <= visitedStates[id]
    /\ Len(next_states') > Len(next_states) =>
          LET id == Join(next_states'[Len(next_states')])
          IN /\ visitedStates'[id] = Len(next_answers'[Len(next_answers')])
             /\ IF id \in DOMAIN visitedStates
                THEN visitedStates'[id] < visitedStates[id]
                ELSE TRUE

\* C8: every search ends, a fingerprint being enqueued again only when its
\* recorded path cost strictly decreases.
SearchTerminates ==
    /\ <>(pc \in {"done", "failed"})
    /\ [][KeptOnlyWhenShorter]_vars

SearchTerminatesWitness ==
    /\ pc = "done"
    /\ outcome = "notFound"
    /\ rekeeps >= 1
    /\ oracleCalls >= 3

\* C9: solve gives up only with an empty queue and with no goal state ever
\* kept.
GivesUpOnlyWhenExhausted ==
    outcome = "notFound" =>
        /\ HeapLength(queue) = 0
        /\ ~goalKept
        /\ \A st \in GoalStates : Join(st) \notin DOMAIN visitedStates

GivesUpOnlyWhenExhaustedWitness ==
    /\ outcome = "notFound"
    /\ pc = "done"
    /\ oracleCalls >= 2
    /\ Cardinality(DOMAIN visitedStates) >= 3

\* the message posted for an initial state that is solved already
SolvedMessage == [distance |-> -1, answer |-> << <<>> >>]

\* C10: the terminal message of a search that found no answer differs from
\* the terminal message of an initial state that is solved already.
NotFoundDiffersFromSolved ==
    (pc = "done" /\ outcome = "notFound") => msgs[Len(msgs)] # SolvedMessage

TerminalMessages == {j \in 1..Len(msgs) : msgs[j].distance = -1}

\* nothing more happens in the worker or on its behalf
Settled ==
    \/ pc = "done"
    \/ (pc = "failed" /\ rejection \in {"dropped", "reported"})

\* C11: every request gets exactly one terminal response, the solved message
\* or an error signal, on every outcome of the search.
ExactlyOneTerminalResponse ==
    /\ Cardinality(TerminalMessages) + onErrorCalls <= 1
    /\ Settled => Cardinality(TerminalMessages) + onErrorCalls = 1

\* C12: progress messages are posted in the order in which their successors
\* are generated, and the terminal message is the last message posted.
ProgressInOrderTerminalLast ==
    /\ \A j \in TerminalMessages : j = Len(msgs) /\ pc = "done"
    /\ pc = "done" => TerminalMessages = {Len(msgs)}
    /\ \A a \in 1..Len(yielded) : \A b \in 1..Len(yielded) :
          (a < b /\ yielded[a].sent > 0 /\ yielded[b].sent > 0)
              => yielded[a].sent < yielded[b].sent
    /\ \A a \in 1..Len(yielded) :
          yielded[a].sent > 0 =>
              /\ yielded[a].sent <= Len(msgs)
              /\ msgs[yielded[a].sent] =
                     [distance |-> yielded[a].distance, answer |-> <<>>]
    /\ \A j \in ProgressMessages :
          \E a \in 1..Len(yielded) : yielded[a].sent = j

ProgressInOrderTerminalLastWitness ==
    /\ pc = "done"
    /\ Cardinality(ProgressMessages) >= 3
    /\ \E j \in ProgressMessages : msgs[j].distance = 1
    /\ \E j \in ProgressMessages : msgs[j].distance = 2
    /\ \E a \in 2..Len(yielded) :
          yielded[a].sent = 0 /\ yielded[a - 1].sent > 0

\* C13: a model that cannot be loaded makes the caller's error handler run,
\* and no progress message was posted for that search.
LoadFailureReachesCaller ==
    (outcome = "loadFailed" /\ rejection \in {"dropped", "reported"}) =>
        /\ onErrorCalls = 1
        /\ ProgressMessages = {}

\* C14: the tensor scope and the loaded model are acquired once and released
\* exactly once on every exit path of solve.
ScopeReleasedOnce ==
    /\ scopeEnds <= scopeStarts
    /\ Returned =>
          /\ scopeStarts = 1
          /\ scopeEnds = 1
          /\ model # "loaded"

\* C15: a popped node is never expanded at a path length greater than the
\* length the ledger records for its state, and no state is expanded twice at
\* the same path length.
ExpandedOnlyAtRecordedLength ==
    /\ pc = "expand" =>
          Len(round_v[1].answer) <= visitedStates[Join(round_v[1].state)]
    /\ \A a \in 1..Len(expansions) : \A b \in 1..Len(expansions) :
          a # b => expansions[a] # expansions[b]

\* C19 as stated: a progress message is posted for every kept successor whose
\* path cost is greater than 0.
ProgressForEveryKeptSuccessor ==
    \A a \in 1..Len(yielded) : yielded[a].len > 0 => yielded[a].sent > 0

\* C19: a progress message is posted for a kept successor exactly when the
\* predicted distance of the node it was generated from is greater than 0;
\* the successors of the initial node, whose distance is 0, get none.
ProgressWhenDistancePositive ==
    /\ \A a \in 1..Len(yielded) :
          yielded[a].sent > 0 <=> yielded[a].distance > 0
    /\ \A a \in 1..Len(yielded) : yielded[a].len = 1 => yielded[a].sent = 0

ProgressWhenDistancePositiveWitness ==
    /\ \E a \in 1..Len(yielded) : yielded[a].len = 1 /\ yielded[a].sent = 0
    /\ \E a \in 1..Len(yielded) : yielded[a].len >= 2 /\ yielded[a].sent = 0
    /\ \E a \in 1..Len(yielded) : yielded[a].len >= 2 /\ yielded[a].sent > 0

\* the step of getNextStateAndAnswers for one successor, of new path cost c
SkipsOrRecords ==
    pc = "expand" =>
        LET id == Join(CurrentNext.state)
            c == Len(CurrentNext.answer)
            held == IF id \in DOMAIN visitedStates
                    THEN visitedStates[id] <= c ELSE FALSE
        IN IF held
           THEN /\ visitedStates' = visitedStates
                /\ next_states' = next_states
                /\ next_answers' = next_answers
                /\ yielded' = yielded
           ELSE /\ DOMAIN visitedStates' = (DOMAIN visitedStates) \cup {id}
                /\ visitedStates'[id] = c
                /\ \A f \in (DOMAIN visitedStates) \ {id} :
                      visitedStates'[f] = visitedStates[f]
                /\ next_states' = Append(next_states, CurrentNext.state)
                /\ next_answers' = Append(next_answers, CurrentNext.answer)
                /\ Len(yielded') = Len(yielded) + 1

\* C20: a successor whose fingerprint the ledger holds at a cost less than or
\* equal to its new path cost is skipped and the ledger left unchanged;
\* otherwise its ledger entry is set to the new cost and it is kept.
LedgerSkipsOrRecords == [][SkipsOrRecords]_vars

LedgerSkipsOrRecordsWitness ==
    /\ rekeeps >= 1
    /\ Len(expansions) >= 3
    /\ Len(yielded) < 2 * (Len(expansions) - 1)
    /\ pc = "pop"

\* the mark stands two twists before the goal place: A then B reaches it
TwoTwistsAway == Ring(RingSize - 1, 1)

\* C17: with the stub oracle, from a state whose goal is reached by the path
\* [A, B] the search returns a goal-reaching path of length 2 or less.
StubScenarioReturnsShortPath ==
    (stickers = TwoTwistsAway /\ Returned) =>
        /\ outcome = "found"
        /\ result # <<>>
        /\ MatchGoalState(Replay(stickers, result[1]))
        /\ Len(result[1]) <= Len(<<"A", "B">>)

StubScenarioReturnsShortPathWitness ==
    /\ stickers = TwoTwistsAway
    /\ MatchGoalState(Replay(stickers, <<"A", "B">>))
    /\ ~MatchGoalState(Replay(stickers, <<"A">>))
    /\ ~MatchGoalState(Replay(stickers, <<"B">>))
    /\ pc = "done"
    /\ Len(result[1]) = 2
    /\ oracleCalls = 1

\* the states a path of len twists leads to from one of the states of from
RECURSIVE ReachIn(_, _)
ReachIn(from, len) ==
    IF len = 0 THEN from
    ELSE ReachIn({getNextStickerColors(st, a) : st \in from, a \in Twists},
                 len - 1)

Searching == pc \in {"loop", "pop", "expand", "predict", "insert"}

\* every call of solve of the worker, the one described by the variables too
AllCalls == otherCalls \cup {ThisCall}

Finished(w) == w.pc \in {"returned", "done"}

\* C18: the queue and the ledger of a running search hold nothing but what
\* this search put there from its own initial state, whatever other requests
\* the worker handled or holds, and two requests with the same input get the
\* same answer, whichever ran first.
SearchesDoNotShare ==
    /\ Searching =>
          /\ \A j \in 1..Len(queue.queue) :
                queue.queue[j].task.state =
                    Replay(stickers, queue.queue[j].task.answer)
          /\ \A id \in DOMAIN visitedStates :
                \E st \in ReachIn({stickers}, visitedStates[id]) :
                    Join(st) = id
    /\ \A a \in AllCalls : \A b \in AllCalls :
          (/\ Finished(a)
           /\ Finished(b)
           /\ a.stickers = b.stickers
           /\ a.solve_n = b.solve_n) =>
              /\ a.result = b.result
              /\ a.outcome = b.outcome

\* the second request came while the first waited for the model, its search
\* ran first, and the first search then ran on another initial state
SearchesDoNotShareWitness ==
    /\ Searching
    /\ ThisCall.no = 1
    /\ Len(expansions) >= 4
    /\ expansions[1].id # Join(stickers)
    /\ HeapLength(queue) >= 2
    /\ \E w \in otherCalls :
          /\ w.pc = "done"
          /\ w.outcome = "found"
          /\ w.stickers # stickers

\* the distances of the progress messages posted for call no, in order
ProgressOf(no) ==
    LET IsProgressOf(y) == y.call = no /\ y.sent > 0
        sel == SelectSeq(yielded, IsProgressOf)
    IN [j \in 1..Len(sel) |-> msgs[sel[j].sent].distance]

\* C16: two runs of the search on the same initial state, with the same
\* parameters, the move order of SINGLE_TWIST_LIST and the deterministic stub
\* oracle, post the same sequence of progress messages and return the same
\* answer.
SameRunSameMessages ==
    \A a \in AllCalls : \A b \in AllCalls :
        (/\ Finished(a)
         /\ Finished(b)
         /\ a.stickers = b.stickers
         /\ a.solve_n = b.solve_n) =>
            /\ ProgressOf(a.no) = ProgressOf(b.no)
            /\ a.result = b.result

\* two finished runs on the same unsolved state, each with progress messages
SameRunSameMessagesWitness ==
    /\ pc = "done"
    /\ outcome = "found"
    /\ Len(ProgressOf(ThisCall.no)) >= 2
    /\ \E w \in otherCalls :
          /\ w.pc = "done"
          /\ w.stickers = stickers
          /\ Len(ProgressOf(w.no)) >= 2

\* a kept successor that is the goal ends the search in the step that keeps it
GoalStep ==
    (/\ pc = "expand"
     /\ Len(yielded') > Len(yielded)
     /\ MatchGoalState(CurrentNext.state)) =>
        /\ pc' = "returned"
        /\ result' = <<CurrentNext.answer>>
        /\ outcome' = "found"

\* once the goal was found nothing of the search moves any more
AfterGoal ==
    (goalKept \/ outcome = "found") =>
        /\ queue' = queue
        /\ expansions' = expansions
        /\ yielded' = yielded
        /\ oracleCalls' = oracleCalls
        /\ visitedStates' = visitedStates
        /\ result' = result
        /\ outcome' = "found"

\* C21: the step that keeps a successor satisfying the goal test ends the
\* search with that successor's path; from then on no node is popped, no
\* successor is generated, the oracle is not called and nothing is inserted
\* into the queue.
GoalEndsSearchAtOnce == [][GoalStep /\ AfterGoal]_vars

\* the goal was found by the first twist of the first of two nodes of a round
GoalEndsSearchAtOnceWitness ==
    /\ pc = "done"
    /\ outcome = "found"
    /\ twist_k = 1
    /\ round_i + 1 < range
    /\ HeapLength(queue) >= 1
    /\ oracleCalls >= 1

\* C22: the oracle is called at most once in a round, with every kept
\* successor of the round in the one batch, and only when the round kept at
\* least one successor.
OracleCalledOnlyWithBatch ==
    pc = "insert" =>
        /\ Len(batch_x) = Len(next_states)
        /\ Len(cost_to_goals) = Len(batch_x)
        /\ Len(batch_x) >= 1

HeapEntries(h) == {h.queue[j] : j \in 1..Len(h.queue)}

\* the entry heappush makes for the j-th kept successor of the round when the
\* instance has handed out counters below first
InsertedEntry(j, first) ==
    [priority |-> LTenths * Len(next_answers[j]) + 10 * cost_to_goals[j],
     counter |-> first + j - 1,
     task |-> [distance |-> cost_to_goals[j],
               state |-> next_states[j],
               answer |-> next_answers[j]]]

InsertStep ==
    pc = "insert" =>
        /\ Len(queue'.queue) = Len(queue.queue) + Len(next_answers)
        /\ HeapEntries(queue') =
              HeapEntries(queue) \cup
                  {InsertedEntry(j, queue.counter) : j \in 1..Len(next_answers)}
        /\ queue'.counter = queue.counter + Len(next_answers)

\* C23: after a round that did not find the goal every kept successor is
\* pushed exactly once, in generation order, with priority l times its path
\* length plus the oracle output at its index in the batch, and nothing else
\* is pushed.
KeptSuccessorsInsertedOnce == [][InsertStep]_vars

KeptSuccessorsInsertedOnceWitness ==
    /\ pc = "loop"
    /\ oracleCalls >= 2
    /\ Len(next_answers) >= 2
    /\ cost_to_goals[1] # cost_to_goals[2]
    /\ HeapLength(queue) >= 3

\* the steps of one round as far as the queue is concerned
RoundPops ==
    /\ (pc = "loop" /\ pc' = "pop") =>
          /\ range' = IF solve_n < HeapLength(queue)
                      THEN solve_n ELSE HeapLength(queue)
          /\ round_i' = 0
          /\ queue' = queue
    /\ (pc = "pop" /\ round_i < range) =>
          /\ round_v' # <<>>
          /\ HeapLength(queue') = HeapLength(queue) - 1
          /\ round_i' = round_i
    /\ (pc = "expand" /\ pc' = "pop") => round_i' = round_i + 1
    /\ (pc = "pop" /\ pc' = "predict") => round_i = range
    /\ pc \in {"expand", "predict"} => queue' = queue
    /\ pc \in {"pop", "expand", "predict"} => range' = range

InitialStateSeeded ==
    created =>
        /\ Join(stickers) \in DOMAIN visitedStates
        /\ visitedStates[Join(stickers)] = 0
        /\ \A j \in 1..Len(next_states) : next_states[j] # stickers
        /\ \A j \in 1..Len(queue.queue) :
              queue.queue[j].task.state = stickers =>
                  queue.queue[j].task.answer = <<>>

\* no recorded cost is dropped or grows
CostsOnlyDecrease ==
    \A id \in DOMAIN visitedStates :
        /\ id \in DOMAIN visitedStates'
        /\ visitedStates'[id] <= visitedStates[id]

\* C25: the ledger holds the initial state's fingerprint at cost 0 from the
\* seed on, recorded costs only ever decrease, and the initial state is never
\* kept as a successor nor pushed on the queue again.
InitialStateNeverReenqueued == []InitialStateSeeded /\ [][CostsOnlyDecrease]_vars

\* a path of two or more twists leads back to the initial state
InitialStateNeverReenqueuedWitness ==
    /\ pc = "expand"
    /\ CurrentNext.state = stickers
    /\ Len(CurrentNext.answer) >= 2
    /\ \E j \in 1..Len(stickers) : stickers[j] # 0

\* every node of the queue and of the batch holds the state its own path
\* leads to from the initial state
NodePathsConsistent ==
    created =>
        /\ \A j \in 1..Len(queue.queue) :
              queue.queue[j].task.state =
                  Replay(stickers, queue.queue[j].task.answer)
        /\ \A j \in 1..Len(next_answers) :
              next_states[j] = Replay(stickers, next_answers[j])

\* a step of the expansion leaves the popped node, the queue and the
\* successors kept so far as they are; a successor it keeps has the parent's
\* path followed by the twist, recorded in the ledger at the path's length
ExpandStep ==
    pc = "expand" =>
        /\ queue' = queue
        /\ round_v' = round_v
        /\ Len(next_answers') >= Len(next_answers)
        /\ SubSeq(next_answers', 1, Len(next_answers)) = next_answers
        /\ SubSeq(next_states', 1, Len(next_states)) = next_states
        /\ Len(next_answers') > Len(next_answers) =>
              LET a == next_answers'[Len(next_answers')]
                  st == next_states'[Len(next_states')]
              IN /\ Len(next_answers') = Len(next_answers) + 1
                 /\ a = Append(round_v[1].answer, SINGLE_TWIST_LIST[twist_k])
                 /\ st = getNextStickerColors(round_v[1].state,
                                              SINGLE_TWIST_LIST[twist_k])
                 /\ visitedStates'[Join(st)] = Len(a)

\* C26: expanding a node changes neither the popped node nor any node in the
\* queue nor a successor kept before; each successor has a path of its own,
\* the parent's path followed by the applied twist, whose length is its cost.
ExpansionLeavesNodesAlone == []NodePathsConsistent /\ [][ExpandStep]_vars

ExpansionLeavesNodesAloneWitness ==
    /\ pc = "expand"
    /\ twist_k = 2
    /\ Len(round_v[1].answer) >= 2
    /\ Len(next_answers) >= 1
    /\ next_answers[Len(next_answers)] =
           Append(round_v[1].answer, SINGLE_TWIST_LIST[1])
    /\ HeapLength(queue) >= 1

Failed == outcome \in {"loadFailed", "predictFailed"}

AfterFailure ==
    Failed =>
        /\ oracleCalls' = oracleCalls
        /\ queue' = queue
        /\ msgs' = msgs
        /\ expansions' = expansions
        /\ yielded' = yielded
        /\ pc' = "failed"
        /\ outcome' = outcome

\* C27: after the model load or a call of the oracle has failed, the search
\* calls the oracle no more, pushes nothing on the queue and posts no message.
FailedCallNotRetried == [][AfterFailure]_vars

FailedCallNotRetriedWitness ==
    /\ outcome = "predictFailed"
    /\ rejection \in {"dropped", "reported"}
    /\ oracleCalls >= 2
    /\ HeapLength(queue) >= 1
    /\ ProgressMessages # {}
    /\ Len(batch_x) >= 1

\* a orders strictly before b by priority, then by insertion counter
OrdersBefore(a, b) ==
    \/ a.priority < b.priority
    \/ (a.priority = b.priority /\ a.counter < b.counter)

\* C28: after every heappush and heappop no entry of the heap array orders
\* strictly before its parent by (priority, counter), and the root is the
\* entry with the smallest (priority, counter) pair.
HeapOrderedByPriorityAndCounter ==
    /\ \A j \in 2..Len(hq.queue) :
          ~OrdersBefore(hq.queue[j], hq.queue[j \div 2])
    /\ \A j \in 2..Len(hq.queue) : ~OrdersBefore(hq.queue[j], hq.queue[1])

\* C29: the insertion counter of a HeapQueue only grows over the lifetime of
\* the instance: it counts every heappush ever made, clear leaving it alone,
\* so entries pushed after a clear have counters above every earlier one and
\* no two entries share a counter.
CounterNeverReset ==
    /\ hq.counter = issued
    /\ \A j \in 1..Len(hq.queue) :
          /\ hq.queue[j].counter = hq.queue[j].task - 1
          /\ hq.queue[j].counter < hq.counter
          /\ hq.queue[j].counter >= clearMark
    /\ \A j \in 1..Len(hq.queue) : \A k \in 1..Len(hq.queue) :
          j # k => hq.queue[j].counter # hq.queue[k].counter

CounterNeverResetWitness ==
    /\ clearMark >= 2
    /\ Len(hq.queue) >= 2
    /\ LastOp = "push"
    /\ before # <<>>

SeqEntries(q) == {q[j] : j \in 1..Len(q)}

\* C30: heappush adds exactly the pushed entry and heappop removes exactly
\* the returned entry, the swaps of _bubble and _sink losing or doubling
\* none: the entries of the heap array are those before the operation plus
\* the pushed one, or minus the returned one.
EntriesArePushedMinusPopped ==
    /\ Cardinality(SeqEntries(hq.queue)) = Len(hq.queue)
    /\ LastOp = "push" =>
          /\ Len(hq.queue) = Len(before) + 1
          /\ \E e \in SeqEntries(hq.queue) :
                /\ e.task = LastVal[1]
                /\ e \notin SeqEntries(before)
                /\ SeqEntries(hq.queue) = SeqEntries(before) \cup {e}
    /\ (LastOp = "pop" /\ LastVal # <<>>) =>
          /\ Len(hq.queue) = Len(before) - 1
          /\ before[1].task = LastVal[1]
          /\ before[1] \notin SeqEntries(hq.queue)
          /\ SeqEntries(before) = SeqEntries(hq.queue) \cup {before[1]}
    /\ (LastOp = "pop" /\ LastVal = <<>>) =>
          /\ before = <<>>
          /\ hq.queue = <<>>

\* a pop from four entries whose sift-down moved the last entry below the root
EntriesArePushedMinusPoppedWitness ==
    /\ LastOp = "pop"
    /\ Len(before) >= 4
    /\ hq.queue[1] # before[Len(before)]
    /\ Len(opLog) >= 2
    /\ opLog[Len(opLog) - 1].op = "push"
    /\ opLog[Len(opLog) - 1].val # <<before[Len(before)].task>>

\* the places in msgs of the messages that the generator posted
PostedInSearch == {yielded[a].sent : a \in 1..Len(yielded)} \ {0}

\* C34: every progress message posted by the worker carries a distance
\* greater than 0, so none carries -1: a message whose distance is -1 is the
\* one that onmessage posts when solve has returned, the last of all.
ProgressDistanceIsPositive ==
    /\ \A j \in PostedInSearch : msgs[j].distance > 0
    /\ \A j \in 1..Len(msgs) :
          msgs[j].distance = -1 => (j \notin PostedInSearch /\ j = Len(msgs)
                                    /\ pc = "done")

\* nodes of distance -1, 0 and 1 were expanded and kept successors, and only
\* the last posted a message
ProgressDistanceIsPositiveWitness ==
    /\ \E a \in 1..Len(yielded) :
          yielded[a].distance = -1 /\ yielded[a].sent = 0
    /\ \E a \in 1..Len(yielded) :
          yielded[a].distance = 0 /\ yielded[a].len >= 2
    /\ \E a \in 1..Len(yielded) :
          yielded[a].distance = 1 /\ yielded[a].sent > 0
    /\ pc = "done"

\* C35: at every point of the search no node in the priority queue holds a
\* state that satisfies the goal test: the initial state is seeded only when
\* it is not the goal, and a kept successor that is the goal ends the search
\* before the round's successors are pushed.
NoGoalStateInQueue ==
    created =>
        \A j \in 1..Len(queue.queue) :
            ~MatchGoalState(queue.queue[j].task.state)

\* a goal state was kept in a round after the first, with nodes left in the
\* queue: it is the last of the round's successors and is never pushed
NoGoalStateInQueueWitness ==
    /\ pc = "returned"
    /\ outcome = "found"
    /\ oracleCalls >= 1
    /\ HeapLength(queue) >= 1
    /\ MatchGoalState(next_states[Len(next_states)])

\* C36: at every point of the search every node in the priority queue has a
\* path that, applied move by move to the initial state, gives the node's
\* state, and the ledger holds the fingerprint of that state with a recorded
\* cost less than or equal to the length of the node's path.
QueueNodesReplayAndAreRecorded ==
    created =>
        \A j \in 1..Len(queue.queue) :
            LET node == queue.queue[j].task
            IN  /\ node.state = Replay(stickers, node.answer)
                /\ Join(node.state) \in DOMAIN visitedStates
                /\ visitedStates[Join(node.state)] <= Len(node.answer)

\* the queue holds a node of two twists or more, and a node whose state was
\* recorded again since at a smaller length
QueueNodesReplayAndAreRecordedWitness ==
    /\ created
    /\ \E j \in 1..Len(queue.queue) : Len(queue.queue[j].task.answer) >= 2
    /\ \E j \in 1..Len(queue.queue) :
          visitedStates[Join(queue.queue[j].task.state)]
              < Len(queue.queue[j].task.answer)

\* the swaps of the sift-down of the last operation, when it was a heappop
\* that moved the last element to the root
PopSwaps ==
    IF LastOp = "pop" /\ Len(before) > 1
    THEN LET n == before[Len(before)]
             popped == SubSeq(before, 1, Len(before) - 1)
         IN SinkSwaps(SetAt(popped, 0, n), 0, n)
    ELSE <<>>

\* C37: during the sift-down of heappop the moved element changes places with
\* a child only if that child orders strictly before it by priority, then
\* insertion counter, and the child it changes places with is the one that
\* orders first of the two.
SiftDownSwapsWithFirstChildBefore ==
    \A k \in 1..Len(PopSwaps) :
        /\ OrdersBefore(PopSwaps[k].taken, PopSwaps[k].moved)
        /\ \A j \in 1..Len(PopSwaps[k].other) :
              ~OrdersBefore(PopSwaps[k].other[j], PopSwaps[k].taken)

\* solver.onmessage has run for the terminal message of search k
TerminalHandled(k) ==
    \E j \in 1..searches[k].handled : Posted(k)[j].distance = -1

\* World.solve has just been called
WorldSolveStep == Len(searches') > Len(searches)

\* solver.onmessage has just run for a progress message of search k
ProgressStep(k) ==
    /\ k <= Len(searches)
    /\ Len(searches') = Len(searches)
    /\ searches'[k].handled = searches[k].handled + 1
    /\ Posted(k)[searches[k].handled + 1].distance # -1

\* C31: World.solve takes the twist lock before the request is sent; each
\* search releases it exactly once, when its terminal message or a worker
\* error arrives and not before; a progress message neither releases the
\* lock nor invokes onSolved; and onSolved is invoked once for a search, with
\* the answer path of its terminal message.
LockTakenAndReleasedOnce ==
    /\ [](\A k \in 1..Len(searches) :
            /\ searches[k].unlocks =
                  (IF TerminalHandled(k) THEN 1 ELSE 0) + searches[k].errors
            /\ searches[k].unlocks <= 1
            /\ searches[k].progress + Len(searches[k].solved)
                  = searches[k].handled
            /\ Len(searches[k].solved) = (IF TerminalHandled(k) THEN 1 ELSE 0)
            /\ TerminalHandled(k) =>
                  searches[k].solved[1] =
                      AnswerOrEmpty(Posted(k)[searches[k].handled])
            /\ (k = Len(searches) /\ outcome = "found" /\ TerminalHandled(k))
                  => searches[k].solved = result)
    /\ [][WorldSolveStep =>
             /\ twistLock'
             /\ pc' = "idle"
             /\ msgs' = <<>>]_vars
    /\ [][\A k \in 1..MaxCalls :
             ProgressStep(k) =>
                 /\ twistLock' = twistLock
                 /\ searches'[k].solved = searches[k].solved
                 /\ searches'[k].unlocks = searches[k].unlocks]_vars

\* a search that found an answer has had its progress messages and its
\* terminal message handled: onSolved got the path and the lock is released
LockTakenAndReleasedOnceWitness ==
    /\ searches # <<>>
    /\ outcome = "found"
    /\ searches[Len(searches)].progress >= 1
    /\ searches[Len(searches)].solved = result
    /\ Len(result[1]) = 2
    /\ searches[Len(searches)].unlocks = 1
    /\ ~twistLock

\* onSolved or onError has run for search k
CallerTold(k) ==
    /\ Len(searches) >= k
    /\ Len(searches[k].solved) + searches[k].errors >= 1

\* C32: every search started by World.solve eventually releases the twist
\* lock: whatever the outcome of the worker, onSolved or onError eventually
\* runs for it, and the cube does not stay locked forever.
EverySearchReleasesLock ==
    /\ \A k \in 1..MaxCalls : (Len(searches) >= k) ~> CallerTold(k)
    /\ twistLock ~> ~twistLock

\* search k has not delivered its terminal response yet and still will: its
\* worker is running, or its terminal message or error is on the way
Outstanding(k) ==
    /\ ~TerminalHandled(k)
    /\ searches[k].errors = 0
    /\ IF k = Len(searches)
       THEN rejection # "dropped"
       ELSE \E j \in 1..Len(searches[k].posted) :
               searches[k].posted[j].distance = -1

\* C33: when World.solve is called again while an earlier search is still
\* outstanding, the twist lock stays held until every outstanding search has
\* delivered its terminal response: the terminal message of one search does
\* not unlock the cube while another search is still running.
LockHeldWhileAnySearchOutstanding ==
    \A k \in 1..Len(searches) : Outstanding(k) => twistLock

====
